---- MODULE Spec2Model ----
(***************************************************************************)
(* Model of pks_api.py: the InvoicingPeriod derived accessors, the VAT     *)
(* lookup, get_hourly_data and Contract.get_invoicing_periods.             *)
(*                                                                         *)
(* Python values are records [k, n, d]:                                    *)
(*   k = "None"                 the value None                             *)
(*   k = "num"                  the number n/d (d > 0, lowest terms)       *)
(*   k = "nan", k = "inf"       numpy's nan and +-inf (n is the sign)      *)
(*   k = "TypeError", "KeyError", ...  the call raised that exception      *)
(* Floating point numbers are modelled by exact rationals.                 *)
(***************************************************************************)
EXTENDS Integers, Sequences, FiniteSets, TLC

\* ------------------------------------------------------------------ bounds
\* longest hourly table the server answers with
MaxLen == 2
\* get_hourly_data calls that can be in flight on one period
MaxCalls == 2
\* VAT lookups issued after the first successful one
MaxFetches == 2
\* get_invoicing_periods calls made on the contract, concurrent or one after
\* another
MaxCallers == 2
\* longest period listing the server answers with
MaxPeriods == 2
\* InvoicingPeriod objects built in one run
MaxObjs == 3

\* ------------------------------------------------------------------ values
NoneV == [k |-> "None", n |-> 0, d |-> 1]
NaN == [k |-> "nan", n |-> 0, d |-> 1]
Inf(s) == [k |-> "inf", n |-> s, d |-> 1]
Raise(e) == [k |-> e, n |-> 0, d |-> 1]

Abs(x) == IF x < 0 THEN -x ELSE x
Sign(x) == IF x < 0 THEN -1 ELSE IF x = 0 THEN 0 ELSE 1

RECURSIVE GCD(_, _)
GCD(a, b) == IF b = 0 THEN a ELSE GCD(b, a % b)

\* the number n/d, d > 0, in lowest terms
Num(n, d) ==
    LET g == GCD(Abs(n), d)
    IN  [k |-> "num", n |-> n \div g, d |-> d \div g]

IntV(i) == Num(i, 1)

IsNum(v) == v.k = "num"
IsFloat(v) == v.k \in {"num", "nan", "inf"}
IsRaise(v) == v.k \notin {"None", "num", "nan", "inf"}

\* bool(v) as the "if self._x:" guards evaluate it
Truthy(v) == (v.k = "num" /\ v.n # 0) \/ v.k \in {"nan", "inf"}

\* x + y, operands evaluated left to right
Add(x, y) ==
    IF IsRaise(x) THEN x
    ELSE IF IsRaise(y) THEN y
    ELSE IF x.k = "None" \/ y.k = "None" THEN Raise("TypeError")
    ELSE IF x.k = "nan" \/ y.k = "nan" THEN NaN
    ELSE IF x.k = "inf" /\ y.k = "inf" THEN (IF x.n = y.n THEN x ELSE NaN)
    ELSE IF x.k = "inf" THEN x
    ELSE IF y.k = "inf" THEN y
    ELSE Num(x.n * y.d + y.n * x.d, x.d * y.d)

\* x * y
Mul(x, y) ==
    IF IsRaise(x) THEN x
    ELSE IF IsRaise(y) THEN y
    ELSE IF x.k = "None" \/ y.k = "None" THEN Raise("TypeError")
    ELSE IF x.k = "nan" \/ y.k = "nan" THEN NaN
    ELSE IF x.k = "inf" \/ y.k = "inf"
         THEN (IF Sign(x.n) * Sign(y.n) = 0 THEN NaN ELSE Inf(Sign(x.n) * Sign(y.n)))
    ELSE Num(x.n * y.n, x.d * y.d)

\* x / y on numpy scalars: a zero divisor gives nan or inf, not an exception
Div(x, y) ==
    IF IsRaise(x) THEN x
    ELSE IF IsRaise(y) THEN y
    ELSE IF x.k = "None" \/ y.k = "None" THEN Raise("TypeError")
    ELSE IF x.k = "nan" \/ y.k = "nan" THEN NaN
    ELSE IF y.k = "inf" THEN (IF x.k = "inf" THEN NaN ELSE IntV(0))
    ELSE IF y.n = 0 THEN (IF x.n = 0 THEN NaN ELSE Inf(Sign(x.n)))
    ELSE IF x.k = "inf" THEN Inf(x.n * Sign(y.n))
    ELSE Num(x.n * y.d * Sign(y.n), x.d * Abs(y.n))

\* x > 0
GtZero(x) == x.k \in {"num", "inf"} /\ x.n > 0

\* ------------------------------------------------------------ hourly data
\* one hour of data, as the HourlyData endpoint delivers it
Rec(c, s, f) ==
    [Consumption |-> c, FixedConsumption |-> IF f > 0 THEN c ELSE 0,
     OpenConsumption |-> IF f > 0 THEN 0 ELSE c,
     SpotPrice |-> s, FixedPrice |-> f, ProfilePrice |-> 10, DeliveryPrice |-> 20]

Records == {Rec(1, 100, 0), Rec(1, 200, 50), Rec(0, 200, 50)}

RECURSIVE SeqsUpTo(_, _)
SeqsUpTo(S, n) ==
    IF n = 0 THEN {<<>>}
    ELSE LET shorter == SeqsUpTo(S, n - 1)
         IN  shorter \cup {Append(t, x) : t \in {u \in shorter : Len(u) = n - 1}, x \in S}

\* the JSON tables a successful HourlyData answer can hold
Tables == SeqsUpTo(Records, MaxLen)

\* values of self.hourly_data
HdNone == [k |-> "None", rows |-> <<>>]
\* the decoded JSON object of an error answer, left by line 413
HdDict == [k |-> "dict", rows |-> <<>>]
\* pd.DataFrame(rows)
DataFrame(rows) == [k |-> "df", rows |-> rows]

\* self.hourly_data[col] succeeds: pd.DataFrame([]) has no columns at all,
\* and the error object has no such key
HasColumn(hd) == hd.k = "df" /\ Len(hd.rows) > 0

RECURSIVE ColSum(_, _)
ColSum(rows, col) ==
    IF rows = <<>> THEN 0 ELSE Head(rows)[col] + ColSum(Tail(rows), col)

RECURSIVE ProdSum(_, _, _)
ProdSum(rows, a, b) ==
    IF rows = <<>> THEN 0 ELSE Head(rows)[a] * Head(rows)[b] + ProdSum(Tail(rows), a, b)

\* hd[col].sum() * 1000 of the three consumption totals
SumTimes1000(f, field, hd, col) ==
    IF Truthy(f[field]) THEN f[field]
    ELSE IF hd.k # "None"
         THEN (IF HasColumn(hd) THEN Mul(IntV(ColSum(hd.rows, col)), IntV(1000))
               ELSE Raise("KeyError"))
    ELSE NoneV

\* hd[col].mean() / 10 of the four average prices
MeanOver10(f, field, hd, col) ==
    IF Truthy(f[field]) THEN f[field]
    ELSE IF hd.k # "None"
         THEN (IF HasColumn(hd)
               THEN Div(Num(ColSum(hd.rows, col), Len(hd.rows)), IntV(10))
               ELSE Raise("KeyError"))
    ELSE NoneV

\* --------------------------------------------------- InvoicingPeriod.__init__
BackingFields ==
    {"_average_spot_price", "_average_fixed_price", "_profile_price", "_delivery_price",
     "_weighted_spot_price", "_total_spot_price", "_total_weighted_spot_price",
     "_total_fixed_price", "_total_spot_cost", "_total_fixed_cost",
     "_total_weighted_spot_cost", "_total_consumption", "_total_fixed_consumption",
     "_total_open_consumption"}

\* every backing field starts as None
InitFields == [b \in BackingFields |-> NoneV]

\* ------------------------------------------------------- derived accessors
\* each takes the period's backing fields f and its hourly_data hd
total_consumption(f, hd) == SumTimes1000(f, "_total_consumption", hd, "Consumption")

total_fixed_consumption(f, hd) ==
    SumTimes1000(f, "_total_fixed_consumption", hd, "FixedConsumption")

total_open_consumption(f, hd) ==
    SumTimes1000(f, "_total_open_consumption", hd, "OpenConsumption")

\* guarded by _average_fixed_price, as the source is
average_spot_price(f, hd) == MeanOver10(f, "_average_fixed_price", hd, "SpotPrice")

average_fixed_price(f, hd) == MeanOver10(f, "_average_fixed_price", hd, "FixedPrice")

profile_price(f, hd) == MeanOver10(f, "_profile_price", hd, "ProfilePrice")

delivery_price(f, hd) == MeanOver10(f, "_delivery_price", hd, "DeliveryPrice")

weighted_spot_price_unweighted(f, hd) == MeanOver10(f, "_weighted_spot_price", hd, "SpotPrice")

weighted_spot_price(f, hd) ==
    IF Truthy(f["_weighted_spot_price"]) THEN f["_weighted_spot_price"]
    ELSE IF hd.k # "None"
         THEN (IF HasColumn(hd)
               THEN LET total_cost == IntV(ProdSum(hd.rows, "SpotPrice", "Consumption"))
                        total_cons == IntV(ColSum(hd.rows, "Consumption"))
                    IN  Div(Div(total_cost, total_cons), IntV(10))
               ELSE Raise("KeyError"))
    ELSE NoneV

total_spot_price(f, hd) ==
    IF Truthy(f["_total_spot_price"]) THEN f["_total_spot_price"]
    ELSE Add(Add(average_spot_price(f, hd), delivery_price(f, hd)), profile_price(f, hd))

total_weighted_spot_price_plain(f, hd) == total_spot_price(f, hd)

\* guarded by _total_spot_price, as the source is
total_weighted_spot_price(f, hd) ==
    IF Truthy(f["_total_spot_price"]) THEN f["_total_spot_price"]
    ELSE Add(Add(weighted_spot_price(f, hd), delivery_price(f, hd)), profile_price(f, hd))

\* "None > 0" raises TypeError; "nan > 0" is False
total_fixed_price(f, hd) ==
    IF Truthy(f["_total_fixed_price"]) THEN f["_total_fixed_price"]
    ELSE LET afp == average_fixed_price(f, hd)
         IN  IF IsRaise(afp) THEN afp
             ELSE IF afp.k = "None" THEN Raise("TypeError")
             ELSE IF GtZero(afp)
                  THEN Add(Add(afp, delivery_price(f, hd)), profile_price(f, hd))
             ELSE IntV(0)

total_spot_cost_no_scale(f, hd) ==
    IF Truthy(f["_total_spot_cost"]) THEN f["_total_spot_cost"]
    ELSE Mul(total_spot_price(f, hd), total_consumption(f, hd))

total_spot_cost(f, hd) ==
    IF Truthy(f["_total_spot_cost"]) THEN f["_total_spot_cost"]
    ELSE Div(Mul(total_spot_price(f, hd), total_consumption(f, hd)), IntV(100))

total_fixed_cost(f, hd) ==
    IF Truthy(f["_total_fixed_cost"]) THEN f["_total_fixed_cost"]
    ELSE Div(Mul(total_fixed_price(f, hd), total_consumption(f, hd)), IntV(100))

total_weighted_spot_cost(f, hd) ==
    IF Truthy(f["_total_weighted_spot_cost"]) THEN f["_total_weighted_spot_cost"]
    ELSE Div(Mul(total_weighted_spot_price(f, hd), total_consumption(f, hd)), IntV(100))

Accessors ==
    {"average_spot_price", "average_fixed_price", "profile_price", "delivery_price",
     "weighted_spot_price", "total_consumption", "total_fixed_consumption",
     "total_open_consumption", "total_spot_price", "total_fixed_price",
     "total_weighted_spot_price", "total_spot_cost", "total_fixed_cost",
     "total_weighted_spot_cost"}

\* getattr(period, a)
Accessor(a, f, hd) ==
    CASE a = "average_spot_price" -> average_spot_price(f, hd)
      [] a = "average_fixed_price" -> average_fixed_price(f, hd)
      [] a = "profile_price" -> profile_price(f, hd)
      [] a = "delivery_price" -> delivery_price(f, hd)
      [] a = "weighted_spot_price" -> weighted_spot_price(f, hd)
      [] a = "total_consumption" -> total_consumption(f, hd)
      [] a = "total_fixed_consumption" -> total_fixed_consumption(f, hd)
      [] a = "total_open_consumption" -> total_open_consumption(f, hd)
      [] a = "total_spot_price" -> total_spot_price(f, hd)
      [] a = "total_fixed_price" -> total_fixed_price(f, hd)
      [] a = "total_weighted_spot_price" -> total_weighted_spot_price(f, hd)
      [] a = "total_spot_cost" -> total_spot_cost(f, hd)
      [] a = "total_fixed_cost" -> total_fixed_cost(f, hd)
      [] a = "total_weighted_spot_cost" -> total_weighted_spot_cost(f, hd)

\* the backing fields after reading accessor a, if reading a stored its result
FieldsAfterStoring(a, f, hd) ==
    LET v == Accessor(a, f, hd)
    IN  IF IsFloat(v) THEN [f EXCEPT !["_" \o a] = v] ELSE f

\* the backing fields after reading accessor a: no property assigns one
FieldsAfter(a, f, hd) == f

\* ------------------------------------------------------------------- state
VARIABLES
    hourly_data,        \* per period object: self.hourly_data
    fields,             \* per period object: the backing fields
    vat,                \* per period object: self._vat_percentage
    hcall,              \* per period object: its get_hourly_data calls, "idle" or "await"
    task,               \* per period object: its initialize_invoicing_period task
    pid,                \* per period object: the listing entry it was built from
    invoicing_periods,  \* Contract._invoicing_periods
    gcall,              \* the get_invoicing_periods calls
    last,               \* the step just taken and what it returned
    wa,                 \* the accessor whose results are observed
    snap,               \* the latest result of wa on period 1
    vatFirst,           \* the VAT value first fetched on period 1
    vatLate,            \* VAT lookups issued after that first fetch
    listOK,             \* period listings fetched with status 200
    returned            \* the lists get_invoicing_periods calls have returned

vars == <<hourly_data, fields, vat, hcall, task, pid, invoicing_periods, gcall,
          last, wa, snap, vatFirst, vatLate, listOK, returned>>

periodVars == <<hourly_data, fields, vat, hcall, task, pid>>
contractVars == <<invoicing_periods, gcall, listOK, returned>>
vatHistory == <<vatFirst, vatLate>>

Objs == 1 .. Len(hourly_data)
Calls == 1 .. MaxCalls
Callers == 1 .. MaxCallers

\* a step on period object p (0: a step of the contract)
StepOn(p, op, ret, arg, aux) == [op |-> op, ret |-> ret, arg |-> arg, aux |-> aux, p |-> p]
Step(op, ret, arg, aux) == StepOn(0, op, ret, arg, aux)

\* self.x = v on the class: every instance sees the value
SetClassAttr(attr, p, v) == [q \in DOMAIN attr |-> v]

\* self.x = v on period object p, attr holding x of every period object
SetAttr(attr, p, v) == [attr EXCEPT ![p] = v]

NoList == [k |-> "None", objs |-> <<>>]
List(objs) == [k |-> "list", objs |-> objs]
RaisedList == [k |-> "raise", objs |-> <<>>]

\* a call: where it is, the listing it fetched and the periods of its tasks
\* while it gathers them, what it returned
Caller(pc, data, objs, ret) == [pc |-> pc, data |-> data, objs |-> objs, ret |-> ret]

IdleCaller == Caller("idle", <<>>, <<>>, NoList)

\* n periods built by InvoicingPeriod(parent, **data), nothing fetched yet
InitWith(n, watched) ==
    /\ hourly_data = [i \in 1 .. n |-> HdNone]
    /\ fields = [i \in 1 .. n |-> InitFields]
    /\ vat = [i \in 1 .. n |-> NoneV]
    /\ hcall = [i \in 1 .. n |-> [c \in Calls |-> "idle"]]
    /\ task = [i \in 1 .. n |-> "none"]
    /\ pid = [i \in 1 .. n |-> i]
    /\ invoicing_periods = NoList
    /\ gcall = [g \in Callers |-> IdleCaller]
    /\ last = Step("init", NoneV, NoneV, NoneV)
    /\ wa \in watched
    /\ snap = [seen |-> FALSE, ret |-> NoneV, n |-> 0]
    /\ vatFirst = [got |-> FALSE, v |-> NoneV]
    /\ vatLate = 0
    /\ listOK = 0
    /\ returned = {}

\* ------------------------------------------------- reading a derived accessor
CallAccessor(p, a) ==
    LET v == Accessor(a, fields[p], hourly_data[p])
    IN  /\ fields' = SetAttr(fields, p, FieldsAfter(a, fields[p], hourly_data[p]))
        /\ last' = IF a = wa /\ p = 1 THEN StepOn(p, "read", v, NoneV, NoneV)
                   ELSE StepOn(p, "read_other", NoneV, NoneV, NoneV)
        /\ snap' = IF a = wa /\ p = 1
                   THEN [seen |-> TRUE, ret |-> v,
                         n |-> IF snap.n < 2 THEN snap.n + 1 ELSE 2]
                   ELSE snap
        /\ UNCHANGED <<hourly_data, vat, hcall, task, pid, wa>>
        /\ UNCHANGED contractVars
        /\ UNCHANGED vatHistory

\* ----------------------------------------------------------- get_hourly_data
\* what the HourlyData request can end with
Answers(T) ==
    {[k |-> "table", rows |-> t] : t \in T}
        \cup {[k |-> x, rows |-> <<>>] : x \in {"dict", "ContentTypeError", "ClientConnectorError"}}

\* lines 406-411: return the stored table, or send the request and wait
HStart(p, c) ==
    /\ hcall[p][c] = "idle"
    /\ IF hourly_data[p].k # "None"
       THEN /\ last' = StepOn(p, "hourly_cached", NoneV, NoneV, NoneV)
            /\ UNCHANGED hcall
       ELSE /\ last' = StepOn(p, "hourly_sent", NoneV, NoneV, NoneV)
            /\ hcall' = [hcall EXCEPT ![p][c] = "await"]
    /\ UNCHANGED <<hourly_data, fields, vat, task, pid, wa, snap>>
    /\ UNCHANGED contractVars
    /\ UNCHANGED vatHistory

\* self.hourly_data after lines 413-414 on answer ans
StoredHourly(hd, ans) ==
    IF ans.k = "table" THEN DataFrame(ans.rows)
    ELSE IF ans.k = "dict" THEN HdDict
    ELSE hd

\* whether the call raises: pd.DataFrame of a JSON object of scalars raises
\* ValueError, and only aiohttp.ClientResponseError is caught
HourlyRaises(ans) == ans.k \in {"dict", "ClientConnectorError"}

\* lines 413-418: the answer arrives
HFinish(p, c, ans) ==
    /\ hcall[p][c] = "await"
    /\ hcall' = [hcall EXCEPT ![p][c] = "idle"]
    /\ hourly_data' = SetAttr(hourly_data, p, StoredHourly(hourly_data[p], ans))
    /\ task' = IF task[p] = "run" /\ c = 1
               THEN [task EXCEPT ![p] = IF HourlyRaises(ans) THEN "raised" ELSE "ok"]
               ELSE task
    /\ last' = StepOn(p, "hourly_done", NoneV, NoneV, NoneV)
    /\ snap' = IF p = 1 /\ hourly_data'[1] # hourly_data[1]
               THEN [snap EXCEPT !.n = 0] ELSE snap
    /\ UNCHANGED <<fields, vat, pid, wa>>
    /\ UNCHANGED contractVars
    /\ UNCHANGED vatHistory

Init == InitWith(1, Accessors)

Next ==
    \/ \E a \in Accessors : CallAccessor(1, a)
    \/ \E c \in Calls : HStart(1, c)
    \/ \E c \in Calls, ans \in Answers(Tables) : HFinish(1, c, ans)

Spec == Init /\ [][Next]_vars

\* ------------------------------------------------ properties of the accessors
\* the observed period's table and its column sums
Hd1 == hourly_data[1]
Rows1 == hourly_data[1].rows
SumCons == ColSum(Rows1, "Consumption")
SumSpot == ColSum(Rows1, "SpotPrice")
SumFixed == ColSum(Rows1, "FixedPrice")
SumSurcharge == ColSum(Rows1, "DeliveryPrice") + ColSum(Rows1, "ProfilePrice")
SumSpotCons == ProdSum(Rows1, "SpotPrice", "Consumption")

\* the step just taken read accessor a of period 1
Read(a) == last.op = "read" /\ wa = a

AllEqualConsumption ==
    \A i, j \in 1 .. Len(Rows1) : Rows1[i].Consumption = Rows1[j].Consumption

\* C1: with hourly_data None or an empty table, every derived accessor returns
\* None: it does not raise and returns no number.
C1_UnavailableNotRaised ==
    (last.op = "read" /\ (Hd1 = HdNone \/ Hd1 = DataFrame(<<>>))) => last.ret = NoneV

\* C2: once an accessor has returned a number for a period, every later read of
\* it returns that number, also after hourly_data was replaced by another
\* table (stated for a non-zero number and a non-empty table).
C2_CachedOnce ==
    [][(/\ last'.op = "read"
        /\ snap.seen /\ IsNum(snap.ret) /\ snap.ret.n # 0
        /\ HasColumn(hourly_data'[1])) => last'.ret = snap.ret]_vars

\* C5: on a non-empty table total_consumption = sum(Consumption) * 1000,
\* average_spot_price = mean(SpotPrice) / 10, total_spot_price = average spot +
\* delivery + profile price, and total_spot_cost = total_spot_price *
\* total_consumption / 100.
C5_TotalSpotCost ==
    (last.op = "read" /\ HasColumn(Hd1)) =>
        /\ wa = "total_consumption" => last.ret = IntV(SumCons * 1000)
        /\ wa = "average_spot_price" => last.ret = Num(SumSpot, 10 * Len(Rows1))
        /\ wa = "total_spot_price" =>
               last.ret = Num(SumSpot + SumSurcharge, 10 * Len(Rows1))
        /\ wa = "total_spot_cost" =>
               last.ret = Num((SumSpot + SumSurcharge) * SumCons * 1000,
                              10 * Len(Rows1) * 100)

\* total_spot_cost was read on two hours of 1 kWh at spot prices 100 and 200:
\* (15 + 2 + 1) * 2000 / 100 = 360
C5_Witness ==
    /\ Read("total_spot_cost")
    /\ Hd1 = DataFrame(<<Rec(1, 100, 0), Rec(1, 200, 50)>>)
    /\ last.ret = IntV(360)

\* C6: on a non-empty table, after any earlier reads, total_weighted_spot_price =
\* weighted_spot_price + delivery + profile price (nan when no energy was
\* consumed), and total_weighted_spot_cost = that * total_consumption / 100.
C6_TotalWeighted ==
    (last.op = "read" /\ HasColumn(Hd1)) =>
        /\ wa = "total_weighted_spot_price" =>
               last.ret = IF SumCons = 0 THEN NaN
                          ELSE Num(SumSpotCons * Len(Rows1) + SumSurcharge * SumCons,
                                   10 * SumCons * Len(Rows1))
        /\ wa = "total_weighted_spot_cost" =>
               last.ret = IF SumCons = 0 THEN NaN
                          ELSE Num((SumSpotCons * Len(Rows1) + SumSurcharge * SumCons)
                                       * SumCons * 1000,
                                   10 * SumCons * Len(Rows1) * 100)

\* total_weighted_spot_price was read where it differs from total_spot_price:
\* 100 * 1 / 1 / 10 + 2 + 1 = 13, while the plain total is 15 + 2 + 1 = 18
C6_Witness ==
    /\ Read("total_weighted_spot_price")
    /\ Hd1 = DataFrame(<<Rec(1, 100, 0), Rec(0, 200, 50)>>)
    /\ last.ret = IntV(13)
    /\ total_spot_price(fields[1], Hd1) = IntV(18)

\* C7 as claimed: whenever all Consumption values of a non-empty table are
\* equal, whatever the common value, weighted_spot_price = average_spot_price.
C7_EqualConsumptionAnyValue ==
    (Read("weighted_spot_price") /\ HasColumn(Hd1) /\ AllEqualConsumption) =>
        last.ret = Num(SumSpot, 10 * Len(Rows1))

\* C7 amended: when sum(Consumption) is not zero weighted_spot_price =
\* sum(SpotPrice * Consumption) / sum(Consumption) / 10, and when all
\* Consumption values are equal and not zero it equals average_spot_price.
C7_WeightedSpotPrice ==
    (Read("weighted_spot_price") /\ HasColumn(Hd1)) =>
        /\ SumCons # 0 => last.ret = Num(SumSpotCons, 10 * SumCons)
        /\ (AllEqualConsumption /\ Rows1[1].Consumption # 0) =>
               last.ret = Num(SumSpot, 10 * Len(Rows1))

\* weighted_spot_price was read on two hours of equal consumption and
\* different spot prices
C7_Witness ==
    /\ Read("weighted_spot_price")
    /\ Hd1 = DataFrame(<<Rec(1, 100, 0), Rec(1, 200, 50)>>)
    /\ last.ret = IntV(15)

\* C8: total_fixed_price returns 0 whenever average_fixed_price is not strictly
\* positive, also when it is None, and average fixed + delivery + profile price
\* otherwise.
C8_TotalFixedPrice ==
    Read("total_fixed_price") =>
        LET afp == average_fixed_price(fields[1], Hd1)
        IN  IF GtZero(afp)
            THEN last.ret = Num(SumFixed + SumSurcharge, 10 * Len(Rows1))
            ELSE last.ret = IntV(0)

\* C9: reading an accessor again while hourly_data is unchanged returns what the
\* previous read returned, whatever other accessors were read meanwhile.
C9_Idempotent ==
    [][(last'.op = "read" /\ snap.n >= 1) => last'.ret = snap.ret]_vars

\* total_spot_cost was read twice on the same non-empty table
C9_Witness ==
    /\ Read("total_spot_cost")
    /\ snap.n = 2
    /\ IsNum(last.ret)

\* ------------------------------------------------------------ VAT percentage
\* what the VatPercent lookup can end with: a JSON number, or an error that
\* requests reports as a RequestException
VatAnswers == {IntV(0), IntV(10), IntV(24), Raise("RequestException")}

\* prices handed to get_with_vat
Prices == {IntV(0), IntV(10), Num(35, 2)}

\* the vat_percentage property on stored value v when a lookup would end with
\* ans: what it returns, what it leaves stored, whether it issued the lookup
vat_percentage(v, ans) ==
    IF Truthy(v) THEN [ret |-> v, stored |-> v, fetched |-> FALSE]
    ELSE IF IsRaise(ans) THEN [ret |-> NoneV, stored |-> v, fetched |-> TRUE]
    ELSE [ret |-> ans, stored |-> ans, fetched |-> TRUE]

\* price * (1 + self.vat_percentage / 100)
get_with_vat(price, v) == Mul(price, Add(IntV(1), Div(v, IntV(100))))

\* the effect of one evaluation r of vat_percentage on period p
VatEffect(p, r) ==
    /\ (p = 1 /\ r.fetched /\ vatFirst.got) => vatLate < MaxFetches
    /\ vat' = SetAttr(vat, p, r.stored)
    /\ vatLate' = IF p = 1 /\ r.fetched /\ vatFirst.got THEN vatLate + 1 ELSE vatLate
    /\ vatFirst' = IF p = 1 /\ r.fetched /\ IsNum(r.ret) /\ ~vatFirst.got
                   THEN [got |-> TRUE, v |-> r.ret] ELSE vatFirst

ReadVat(p, ans) ==
    LET r == vat_percentage(vat[p], ans)
    IN  /\ VatEffect(p, r)
        /\ last' = StepOn(p, "vat", r.ret, IntV(p), NoneV)
        /\ UNCHANGED <<hourly_data, fields, hcall, task, pid, wa, snap>>
        /\ UNCHANGED contractVars

GetWithVat(p, price, ans) ==
    LET r == vat_percentage(vat[p], ans)
    IN  /\ VatEffect(p, r)
        /\ last' = StepOn(p, "get_with_vat", get_with_vat(price, r.ret), price, r.ret)
        /\ UNCHANGED <<hourly_data, fields, hcall, task, pid, wa, snap>>
        /\ UNCHANGED contractVars

\* two periods of one contract; the VAT history observes period 1
InitVat == InitWith(2, {"total_consumption"})

NextVat ==
    \/ \E p \in Objs, ans \in VatAnswers : ReadVat(p, ans)
    \/ \E p \in Objs, price \in Prices, ans \in VatAnswers : GetWithVat(p, price, ans)

SpecVat == InitVat /\ [][NextVat]_vars

\* C3: after one read of vat_percentage fetched a value (0 included), no later
\* read or get_with_vat call issues another lookup, and every later read
\* returns the value first fetched.
C3_VatWriteOnce ==
    /\ vatLate = 0
    /\ (last.op = "vat" /\ last.arg = IntV(1) /\ vatFirst.got) => last.ret = vatFirst.v

\* C4: get_with_vat(price) returns None when vat_percentage is None, and
\* price * (1 + v / 100) when the VAT percentage v is available; it never raises.
C4_GetWithVat ==
    last.op = "get_with_vat" =>
        IF last.aux = NoneV THEN last.ret = NoneV
        ELSE last.ret = Num(last.arg.n * (100 * last.aux.d + last.aux.n),
                            last.arg.d * 100 * last.aux.d)

\* --------------------------------------------- Contract.get_invoicing_periods
\* the period listings a status 200 answer can hold: the ids of the latest
\* k periods, newest first
Listings == {[i \in 1 .. k |-> k + 1 - i] : k \in 0 .. MaxPeriods}

\* the hourly answers given to the tasks of a listing
ContractAnswers == Answers({<<Rec(1, 100, 0)>>})

ContractStep == Step("contract", NoneV, NoneV, NoneV)

\* lines 168-172: return the stored list, or request the listing and wait
GStart(g) ==
    /\ gcall[g].pc = "idle"
    /\ IF invoicing_periods.k # "None"
       THEN /\ gcall' = [gcall EXCEPT ![g] = Caller("done", <<>>, <<>>, invoicing_periods)]
            /\ returned' = returned \cup {invoicing_periods.objs}
       ELSE /\ gcall' = [gcall EXCEPT ![g] = Caller("listing", <<>>, <<>>, NoList)]
            /\ UNCHANGED returned
    /\ last' = ContractStep
    /\ UNCHANGED <<invoicing_periods, listOK, wa, snap>>
    /\ UNCHANGED periodVars
    /\ UNCHANGED vatHistory

\* lines 173-177 and 183-186: status 200 with listing data; one task per entry,
\* each building its InvoicingPeriod and sending its hourly-data request
GListingOK(g, data) ==
    LET n == Len(hourly_data)
        k == Len(data)
    IN  /\ gcall[g].pc = "listing"
        /\ n + k <= MaxObjs
        /\ hourly_data' = hourly_data \o [i \in 1 .. k |-> HdNone]
        /\ fields' = fields \o [i \in 1 .. k |-> InitFields]
        /\ vat' = vat \o [i \in 1 .. k |-> NoneV]
        /\ hcall' = hcall \o [i \in 1 .. k |->
                                 [c \in Calls |-> IF c = 1 THEN "await" ELSE "idle"]]
        /\ task' = task \o [i \in 1 .. k |-> "run"]
        /\ pid' = pid \o data
        /\ gcall' = [gcall EXCEPT ![g] =
                        Caller("gather", data, [i \in 1 .. k |-> n + i], NoList)]
        /\ listOK' = listOK + 1
        /\ last' = ContractStep
        /\ UNCHANGED <<invoicing_periods, returned, wa, snap>>
        /\ UNCHANGED vatHistory

\* lines 179-181: another status; returns None
GListingFail(g) ==
    /\ gcall[g].pc = "listing"
    /\ gcall' = [gcall EXCEPT ![g] = Caller("done", <<>>, <<>>, NoList)]
    /\ last' = ContractStep
    /\ UNCHANGED <<invoicing_periods, listOK, returned, wa, snap>>
    /\ UNCHANGED periodVars
    /\ UNCHANGED vatHistory

\* the tasks' periods, last task first
GatheredReversed(objs) == List([i \in 1 .. Len(objs) |-> objs[Len(objs) + 1 - i]])

\* the list asyncio.gather gives: the tasks' periods in the order of the tasks
Gathered(objs) == List(objs)

\* no waiting for the tasks at all
TasksNotAwaited(objs) == TRUE

\* await asyncio.gather(*tasks) can return: every task has returned its period
TasksReturned(objs) == \A i \in 1 .. Len(objs) : task[objs[i]] = "ok"

\* lines 177-178: every task has returned its period
GGatherDone(g) ==
    /\ gcall[g].pc = "gather"
    /\ TasksReturned(gcall[g].objs)
    /\ invoicing_periods' = Gathered(gcall[g].objs)
    /\ gcall' = [gcall EXCEPT ![g] = Caller("done", <<>>, <<>>, Gathered(gcall[g].objs))]
    /\ returned' = returned \cup {Gathered(gcall[g].objs).objs}
    /\ last' = ContractStep
    /\ UNCHANGED <<listOK, wa, snap>>
    /\ UNCHANGED periodVars
    /\ UNCHANGED vatHistory

\* line 177: a task raised, and gather passes the exception on to the caller
GGatherRaise(g) ==
    /\ gcall[g].pc = "gather"
    /\ \E i \in 1 .. Len(gcall[g].objs) : task[gcall[g].objs[i]] = "raised"
    /\ gcall' = [gcall EXCEPT ![g] = Caller("done", <<>>, <<>>, RaisedList)]
    /\ last' = ContractStep
    /\ UNCHANGED <<invoicing_periods, listOK, returned, wa, snap>>
    /\ UNCHANGED periodVars
    /\ UNCHANGED vatHistory

\* a contract none of whose periods has been built
InitContract == InitWith(0, {"total_consumption"})

NextContract ==
    \/ \E g \in Callers : GStart(g)
    \/ \E g \in Callers, data \in Listings : GListingOK(g, data)
    \/ \E g \in Callers : GListingFail(g)
    \/ \E g \in Callers : GGatherDone(g)
    \/ \E g \in Callers : GGatherRaise(g)
    \/ \E p \in Objs, ans \in ContractAnswers : HFinish(p, 1, ans)

SpecContract == InitContract /\ [][NextContract]_vars

\* C10: over any interleaving of get_invoicing_periods calls the period listing
\* is fetched and the periods are built at most once, and every call that
\* returns a list returns the same list.
C10_MaterializedOnce == listOK <= 1 /\ Cardinality(returned) <= 1

\* ------------------------------------------- properties of get_hourly_data
\* a get_hourly_data call on period 1 ends in this step without storing a table
FailedCall ==
    /\ \E c \in Calls : hcall[1][c] = "await" /\ hcall'[1][c] = "idle"
    /\ hourly_data'[1].k # "df"

\* C11: once get_hourly_data has stored a table, no get_hourly_data call, later
\* or already in flight, replaces it (stated for a non-empty table and a table
\* as the replacement).
C11_FetchedOnce ==
    [][(HasColumn(hourly_data[1]) /\ hourly_data'[1].k = "df")
           => hourly_data'[1] = hourly_data[1]]_vars

\* C13: when a get_hourly_data call fails, hourly_data stays absent, and a call
\* made while no table is stored issues a new fetch.
C13_Retryable ==
    [][/\ (hourly_data[1] = HdNone /\ FailedCall) => hourly_data'[1] = HdNone
       /\ (last'.op = "hourly_cached" /\ last'.p = 1) => hourly_data[1].k = "df"]_vars

\* ------------------------------------------------ two periods of one contract
\* the answers given to the two periods' requests
PairAnswers == Answers({<<Rec(1, 100, 0)>>})
PairVatAnswers == {IntV(0), IntV(24), Raise("RequestException")}

\* two periods built by initialize_invoicing_period, nothing fetched yet
InitPair == InitWith(2, {"total_spot_cost"})

\* either period fetches its hourly data, reads its VAT and its accessors, in
\* any interleaving
NextPair ==
    \/ \E p \in Objs, a \in Accessors : CallAccessor(p, a)
    \/ \E p \in Objs : HStart(p, 1)
    \/ \E p \in Objs, ans \in PairAnswers : HFinish(p, 1, ans)
    \/ \E p \in Objs, ans \in PairVatAnswers : ReadVat(p, ans)

SpecPair == InitPair /\ [][NextPair]_vars

\* C12: a get_hourly_data call, VAT read or accessor read on one period leaves
\* the hourly_data, the VAT cache and the backing fields of every other period
\* unchanged.
C12_NoSharedState ==
    [][\A q \in Objs :
           last'.p # q =>
               /\ hourly_data'[q] = hourly_data[q]
               /\ vat'[q] = vat[q]
               /\ fields'[q] = fields[q]
               /\ hcall'[q] = hcall[q]]_vars

\* period 2 just stored its table while period 1, fetched and read before,
\* keeps its own table, VAT and result
C12_Witness ==
    /\ last.op = "hourly_done" /\ last.p = 2
    /\ hourly_data[2] = HdDict
    /\ HasColumn(hourly_data[1])
    /\ vat[1] = IntV(24) /\ vat[2] = NoneV
    /\ snap.seen /\ snap.ret = total_spot_cost(fields[1], hourly_data[1])
    /\ IsNum(snap.ret)

\* --------------------------------------- properties of get_invoicing_periods
\* C14: the list a call stores and returns holds one InvoicingPeriod per entry
\* of the listing it fetched, in the order of the listing, whatever the order
\* in which the hourly-data fetches completed.
C14_OrderPreserved ==
    [][\A g \in Callers :
           (gcall[g].pc = "gather" /\ gcall'[g].pc = "done" /\ gcall'[g].ret.k = "list") =>
               LET L == gcall'[g].ret.objs
                   D == gcall[g].data
               IN  /\ Len(L) = Len(D)
                   /\ \A i \in 1 .. Len(L) : pid[L[i]] = D[i]
                   /\ \A i, j \in 1 .. Len(L) : L[i] = L[j] => i = j
                   /\ invoicing_periods' = gcall'[g].ret]_vars

\* a call stored and returned the periods of the listing <<2, 1>>
C14_Witness ==
    /\ invoicing_periods.k = "list"
    /\ Len(invoicing_periods.objs) = 2
    /\ pid[invoicing_periods.objs[1]] = 2 /\ pid[invoicing_periods.objs[2]] = 1
    /\ \E g \in Callers : gcall[g].pc = "done" /\ gcall[g].ret = invoicing_periods

\* C15: _invoicing_periods is None or a list, and is a list only once the
\* get_hourly_data call of each of its periods has finished; a call whose
\* listing is answered with another status than 200 returns None and assigns
\* nothing, and a call made while _invoicing_periods is None fetches the listing.
C15_NoPartialResult ==
    [][/\ invoicing_periods'.k \in {"None", "list"}
       /\ invoicing_periods'.k = "list" =>
              \A i \in 1 .. Len(invoicing_periods'.objs) :
                  /\ task'[invoicing_periods'.objs[i]] = "ok"
                  /\ hcall'[invoicing_periods'.objs[i]][1] = "idle"
       /\ \A g \in Callers :
              /\ (gcall[g].pc = "listing" /\ gcall'[g].pc = "done") =>
                     (gcall'[g].ret = NoList /\ invoicing_periods' = invoicing_periods)
              /\ (gcall[g].pc = "idle" /\ gcall'[g].pc # "idle"
                      /\ invoicing_periods.k = "None") =>
                     gcall'[g].pc = "listing"]_vars

\* one call was answered with another status and returned None, and another
\* call then fetched, gathered and stored two periods
C15_Witness ==
    \E g, h \in Callers :
        /\ gcall[g].pc = "done" /\ gcall[g].ret = NoList
        /\ gcall[h].pc = "done" /\ gcall[h].ret.k = "list"
        /\ invoicing_periods = gcall[h].ret
        /\ Len(invoicing_periods.objs) = 2

====
